---- MODULE Spec2Model ----
(***************************************************************************)
(* The live voice session of src/LiveMaintenance.tsx as a state machine:   *)
(* the component's React state and refs, the browser objects they point    *)
(* to (audio contexts, microphone streams, audio graph nodes, animation    *)
(* frame loops), the remote sessions opened by startSession, and the       *)
(* onmessage continuations that wait for a decode.  With it, the local     *)
(* state of src/VibrationAnalyzer.tsx (images, view, analysis, feedback     *)
(* log) and the chat of src/App.tsx.                                        *)
(*                                                                         *)
(* Time is counted in units of 100 ms, the tolerance of source.onended.    *)
(* A start of startSession is numbered 1, 2, ...; the audio contexts, the  *)
(* stream, the graph nodes, the visualizer loop and the remote session it  *)
(* creates carry that number.  0 stands for a null ref.                    *)
(***************************************************************************)
EXTENDS Integers, Sequences, FiniteSets

\* ---------------------------------------------------------------- bounds
MaxSessions == 2
MaxMsgs == 2
MaxTime == 3
LogDepth == 2
MaxFiles == 1
MaxFeedback == 2
MaxChat == 3

\* ------------------------------------------------------ program constants
\* source.onended: ctx.currentTime >= nextStartTimeRef.current - 0.1
Tolerance == 1
\* audioBuffer.duration of a decoded chunk (100 ms units): 0.3 s and 0.5 s
Durations == {3, 5}

Starts == 1..MaxSessions

VARIABLES
    mounted,            \* the component instance is mounted
    connected,          \* useState(false)
    isTalking,          \* useState(false)
    rendered,           \* `connected` as last committed to the DOM (canvas, button)
    inputContextRef,
    outputContextRef,
    streamRef,
    processorRef,
    sourceRef,
    analyserRef,
    nextStartTimeRef,
    sessionRef,
    animationFrameRef,  \* the loop whose pending frame id the ref holds
    inputCtx,           \* state of the AudioContext({sampleRate: 16000}) of each start
    outputCtx,          \* state of the AudioContext({sampleRate: 24000}) of each start
    currentTime,        \* currentTime of each output context
    tracks,             \* microphone tracks of each start's stream
    outputNode,         \* context of the gain node each start created
    nodes,              \* capture graph each onopen created
    loops,              \* visualizer loop each onopen started
    phase,              \* remote session of each start
    closeRequested,     \* s.close() was called on the session
    decoding,           \* onmessage continuations awaiting decodeAudioData
    sources,            \* started buffer sources whose onended has not run
    arrived,            \* number of onmessage events so far
    playLog,            \* history: the last LogDepth of the chunks passed to
                        \* source.start and the interrupted events handled
    life,               \* history: "never" started, "active", "stopped"
    last,               \* history: the operation of the component that ran last
    waveformImage,      \* VibrationAnalyzer: useState(null); 0 is null, else a file
    spectrumImage,
    historicalImage,
    activeView,         \* useState('spectrum')
    result,             \* useState(null): "null" or the severity of the result
    feedbackGiven,      \* useState(null): "null", "up", "down"
    analyzing,          \* useState(false)
    analysis,           \* the runAnalysis call awaiting analyzeVibrationData, with
                        \* history: the local state when it was invoked
    feedbackStore,      \* localStorage item 'gemini_feedback_history'
    chatInput,          \* App: the chat input holds non-blank text
    isTyping,           \* useState(false)
    chatMessages,       \* useState([])
    requests            \* chatInstance.sendMessage calls not settled yet

liveVars == <<mounted, connected, isTalking, rendered, inputContextRef,
              outputContextRef, streamRef, processorRef, sourceRef, analyserRef,
              nextStartTimeRef, sessionRef, animationFrameRef, inputCtx,
              outputCtx, currentTime, tracks, outputNode, nodes, loops, phase,
              closeRequested, decoding, sources, arrived, playLog, life>>

analyzerVars == <<waveformImage, spectrumImage, historicalImage, activeView,
                  result, feedbackGiven, analyzing, analysis,
                  feedbackStore>>

chatVars == <<chatInput, isTyping, chatMessages, requests>>

\* The state of the other components, which the live session never touches.
others == <<analyzerVars, chatVars>>

vars == <<liveVars, last, analyzerVars, chatVars>>

refs == <<inputContextRef, outputContextRef, streamRef, processorRef, sourceRef,
          analyserRef, sessionRef>>
browser == <<inputCtx, outputCtx, tracks, outputNode, nodes>>
playback == <<decoding, sources, arrived, playLog>>

Max(a, b) == IF a >= b THEN a ELSE b

NoNodes == [ctx |-> 0, source |-> FALSE, analyser |-> FALSE, processor |-> FALSE]

\* History record of an operation on session s.  For stopSession it also
\* tells whether the run before it was a stopSession too (again), whether no
\* session had been started since the last stop (idle), the calls issued and
\* whether a captured frame was sent right before it (afterFrame).
Op(name, s) ==
    [op |-> name, s |-> s, again |-> FALSE, idle |-> FALSE, issued |-> {},
     order |-> <<>>,
     afterFrame |-> FALSE]

LiveInit ==
    /\ mounted = TRUE
    /\ connected = FALSE
    /\ isTalking = FALSE
    /\ rendered = FALSE
    /\ inputContextRef = 0
    /\ outputContextRef = 0
    /\ streamRef = 0
    /\ processorRef = 0
    /\ sourceRef = 0
    /\ analyserRef = 0
    /\ nextStartTimeRef = 0
    /\ sessionRef = 0
    /\ animationFrameRef = 0
    /\ inputCtx = [s \in Starts |-> "none"]
    /\ outputCtx = [s \in Starts |-> "none"]
    /\ currentTime = [s \in Starts |-> 0]
    /\ tracks = [s \in Starts |-> "none"]
    /\ outputNode = [s \in Starts |-> 0]
    /\ nodes = [s \in Starts |-> NoNodes]
    /\ loops = [s \in Starts |-> "none"]
    /\ phase = [s \in Starts |-> "none"]
    /\ closeRequested = [s \in Starts |-> FALSE]
    /\ decoding = {}
    /\ sources = {}
    /\ arrived = 0
    /\ playLog = <<>>
    /\ life = "never"
    /\ last = Op("init", 0)

\* getItem of a key that was never set returns null.
NoItem == [present |-> FALSE, text |-> <<>>]

NoAnalysis == [state |-> "idle", touched |-> FALSE, before |-> <<>>]

\* VibrationAnalyzer.tsx lines 56-92: the initial values of useState.
AnalyzerInit ==
    /\ waveformImage = 0
    /\ spectrumImage = 0
    /\ historicalImage = 0
    /\ activeView = "spectrum"
    /\ result = "null"
    /\ feedbackGiven = "null"
    /\ analyzing = FALSE
    /\ analysis = NoAnalysis

\* App.tsx lines 24-27 and 35-39: the initial chat state; the chat session
\* is created by the mount effect.
ChatInit ==
    /\ chatInput = FALSE
    /\ isTyping = FALSE
    /\ chatMessages = <<>>
    /\ requests = {}

Init ==
    /\ LiveInit
    /\ AnalyzerInit
    /\ feedbackStore = NoItem
    /\ ChatInit

\* ------------------------------------------------------------- rendering
\* React commits the `connected` state: the canvas is mounted (canvasRef set)
\* and the button's handler is stopSession exactly when it rendered true.
Render ==
    /\ mounted
    /\ rendered # connected
    /\ rendered' = connected
    /\ last' = Op("render", 0)
    /\ UNCHANGED <<mounted, connected, isTalking, refs, nextStartTimeRef,
                   animationFrameRef, browser, currentTime, loops, phase,
                   closeRequested, playback, life>>
    /\ UNCHANGED others

\* ---------------------------------------------------------- startSession
\* Lines 70-76: the contexts are created, then the handler awaits getUserMedia.
StartSession(s) ==
    /\ mounted
    /\ ~rendered
    /\ phase[s] = "none"
    /\ \A t \in Starts : t < s => phase[t] # "none"
    /\ inputContextRef' = s
    /\ outputContextRef' = s
    /\ inputCtx' = [inputCtx EXCEPT ![s] = "running"]
    /\ outputCtx' = [outputCtx EXCEPT ![s] = "running"]
    /\ phase' = [phase EXCEPT ![s] = "micPending"]
    /\ life' = "active"
    /\ last' = Op("startSession", s)
    /\ UNCHANGED <<mounted, connected, isTalking, rendered, streamRef,
                   processorRef, sourceRef, analyserRef, nextStartTimeRef,
                   sessionRef, animationFrameRef, currentTime, tracks,
                   outputNode, nodes, loops, closeRequested, playback>>
    /\ UNCHANGED others

\* Lines 93-116: source -> analyser -> processor -> destination, created on
\* the input context the ref holds when onopen runs.
Wired == [ctx |-> inputContextRef, source |-> TRUE, analyser |-> TRUE,
          processor |-> TRUE]

\* Faulty variant of NodesAfterConnect: the capture graph is wired as soon
\* as getUserMedia resolves.
WiredOnConnect(s) == [nodes EXCEPT ![s] = Wired]

\* The capture graph after the lines 77-83 and 176 of startSession have run:
\* they create no source, analyser or processor node.
NodesAfterConnect(s) == nodes

\* Lines 77-83, 176: getUserMedia resolved; the gain node is created on the
\* output context the ref holds now, client.connect is called and its promise stored.
MicGranted(s) ==
    /\ phase[s] = "micPending"
    /\ streamRef' = s
    /\ tracks' = [tracks EXCEPT ![s] = "live"]
    /\ outputNode' = [outputNode EXCEPT ![s] = outputContextRef]
    /\ nodes' = NodesAfterConnect(s)
    /\ phase' = [phase EXCEPT ![s] = "connecting"]
    /\ sessionRef' = s
    /\ last' = Op("micGranted", s)
    /\ UNCHANGED <<mounted, connected, isTalking, rendered, inputContextRef,
                   outputContextRef, processorRef, sourceRef, analyserRef,
                   nextStartTimeRef, animationFrameRef, inputCtx, outputCtx,
                   currentTime, loops, closeRequested, playback,
                   life>>
    /\ UNCHANGED others

\* Faulty variant of PhaseAfterDenied: the start goes on to client.connect
\* although getUserMedia rejected.
PhaseConnectAnyway(s) == [phase EXCEPT ![s] = "connecting"]

\* Lines 76-83 and 178: the rejected await skips the rest of the try block,
\* client.connect included; the start has ended ("denied").
PhaseAfterDenied(s) == [phase EXCEPT ![s] = "denied"]

\* Lines 178-181: getUserMedia rejected; the catch block alerts and returns.
MicDenied(s) ==
    /\ phase[s] = "micPending"
    /\ phase' = PhaseAfterDenied(s)
    /\ last' = Op("micDenied", s)
    /\ UNCHANGED <<mounted, connected, isTalking, rendered, refs,
                   nextStartTimeRef, animationFrameRef, browser, currentTime,
                   loops, closeRequested, playback, life>>
    /\ UNCHANGED others

\* ---------------------------------------------------------------- onopen
\* Lines 26-66, called from line 119: the loop starts only when the canvas is
\* mounted; its first render requests an animation frame and stores the id.
LoopsAfterDraw(s) ==
    IF mounted /\ rendered THEN [loops EXCEPT ![s] = "pending"] ELSE loops

FrameRefAfterDraw(s) ==
    IF mounted /\ rendered THEN s ELSE animationFrameRef

\* Lines 86-120.  The handler returns at line 91 when the input context ref
\* is null.  createMediaStreamSource on a context that stopSession has closed
\* either throws (after setConnected(true)) or returns a node, depending on
\* the browser: both outcomes are kept.
OnOpen(s) ==
    /\ phase[s] = "connecting"
    /\ phase' = [phase EXCEPT ![s] = "open"]
    /\ connected' = TRUE
    /\ \E throws \in IF inputContextRef # 0 /\ inputCtx[inputContextRef] = "closed"
                     THEN BOOLEAN ELSE {FALSE} :
          IF inputContextRef = 0 \/ throws
          THEN UNCHANGED <<analyserRef, sourceRef, processorRef, nodes, loops,
                           animationFrameRef>>
          ELSE /\ analyserRef' = s
               /\ sourceRef' = s
               /\ processorRef' = s
               /\ nodes' = [nodes EXCEPT ![s] = Wired]
               /\ loops' = LoopsAfterDraw(s)
               /\ animationFrameRef' = FrameRefAfterDraw(s)
    /\ last' = Op("onopen", s)
    /\ UNCHANGED <<mounted, isTalking, rendered, inputContextRef,
                   outputContextRef, streamRef, nextStartTimeRef, sessionRef,
                   inputCtx, outputCtx, currentTime, tracks, outputNode,
                   closeRequested, playback, life>>
    /\ UNCHANGED others

\* Faulty variant of Delivers: a processor keeps delivering frames after it
\* was disconnected and its context closed.
DeliversForEver(s) == nodes[s].ctx # 0

\* Lines 100-113: the script processor of start s fires onaudioprocess while
\* it is connected to the destination of a running context.
Delivers(s) == nodes[s].processor /\ inputCtx[nodes[s].ctx] = "running"

\* Lines 102-108: the script processor delivers a frame; the handler passes
\* it to the session of the onopen that created the processor.  The promise
\* of client.connect is fulfilled once onopen has run, so the callback of
\* line 105 runs in the microtask that follows the handler.
OnAudioProcess(s) ==
    /\ Delivers(s)
    /\ last' = Op("onaudioprocess", s)
    /\ UNCHANGED <<mounted, connected, isTalking, rendered, refs,
                   nextStartTimeRef, animationFrameRef, browser, currentTime,
                   loops, phase, closeRequested, playback, life>>
    /\ UNCHANGED others

\* Lines 36-63: an animation frame of loop l fires; render samples the
\* analyser, requests the next frame and stores its id.
RenderFrame(l) ==
    /\ loops[l] = "pending"
    /\ analyserRef # 0
    /\ animationFrameRef' = l
    /\ last' = Op("render frame", l)
    /\ UNCHANGED <<mounted, connected, isTalking, rendered, refs,
                   nextStartTimeRef, browser, currentTime, loops, phase,
                   closeRequested, playback, life>>
    /\ UNCHANGED others

\* cancelAnimationFrame(animationFrameRef.current), guarded by the ref.
Cancelled ==
    IF animationFrameRef # 0 /\ loops[animationFrameRef] = "pending"
    THEN [loops EXCEPT ![animationFrameRef] = "cancelled"]
    ELSE loops

\* ------------------------------------------------------ onclose / onerror
\* Lines 156-160.  The remote end closes an open session, on its own or
\* after s.close().
OnClose(s) ==
    /\ phase[s] = "open"
    /\ phase' = [phase EXCEPT ![s] = "closed"]
    /\ connected' = FALSE
    /\ loops' = Cancelled
    /\ last' = Op("onclose", s)
    /\ UNCHANGED <<mounted, isTalking, rendered, refs, nextStartTimeRef,
                   animationFrameRef, browser, currentTime, closeRequested,
                   playback, life>>
    /\ UNCHANGED others

\* Lines 161-165.  A transport error ends a connecting or open session.
OnError(s) ==
    /\ phase[s] \in {"connecting", "open"}
    /\ phase' = [phase EXCEPT ![s] = IF @ = "open" THEN "closed" ELSE "failed"]
    /\ connected' = FALSE
    /\ loops' = Cancelled
    /\ last' = Op("onerror", s)
    /\ UNCHANGED <<mounted, isTalking, rendered, refs, nextStartTimeRef,
                   animationFrameRef, browser, currentTime, closeRequested,
                   playback, life>>
    /\ UNCHANGED others

\* Lines 83 and 176: the promise of client.connect rejects before onopen.
\* It is not awaited inside the try block, so no handler of the component
\* runs: the catch block of line 178 is not entered.
ConnectRejected(s) ==
    /\ phase[s] = "connecting"
    /\ phase' = [phase EXCEPT ![s] = "failed"]
    /\ last' = Op("connect rejected", s)
    /\ UNCHANGED <<mounted, connected, isTalking, rendered, refs,
                   nextStartTimeRef, animationFrameRef, browser, currentTime,
                   loops, closeRequested, playback, life>>
    /\ UNCHANGED others

\* ----------------------------------------------------------- stopSession
\* Faulty variant of TracksStopped: the tracks of the stream are left
\* running.
TracksLeft == tracks

\* Lines 186-188: t.stop() on every track of the stream the ref holds.
TracksStopped ==
    IF streamRef # 0 THEN [tracks EXCEPT ![streamRef] = "ended"] ELSE tracks

\* Lines 189-197: disconnect() on the processor, source and analyser nodes
\* the refs hold.
Disc1(ns) ==
    IF processorRef # 0 THEN [ns EXCEPT ![processorRef].processor = FALSE] ELSE ns

Disc2(ns) ==
    IF sourceRef # 0 THEN [ns EXCEPT ![sourceRef].source = FALSE] ELSE ns

Disc3(ns) ==
    IF analyserRef # 0 THEN [ns EXCEPT ![analyserRef].analyser = FALSE] ELSE ns

NodesDisconnected == Disc3(Disc2(Disc1(nodes)))

\* Lines 198-203: close() on the context a ref holds.
Closed(ctxs, ref) ==
    IF ref # 0 THEN [ctxs EXCEPT ![ref] = "closed"] ELSE ctxs

\* Lines 209-211: sessionRef.current.then(s => s.close && s.close()).
CloseRequested ==
    IF sessionRef # 0 THEN [closeRequested EXCEPT ![sessionRef] = TRUE]
    ELSE closeRequested

\* The calls one run of stopSession issues (lines 186-211).
Issued ==
    (IF streamRef # 0 THEN {"track.stop"} ELSE {})
    \cup (IF processorRef # 0 \/ sourceRef # 0 \/ analyserRef # 0
          THEN {"disconnect"} ELSE {})
    \cup (IF inputContextRef # 0 \/ outputContextRef # 0
          THEN {"context.close"} ELSE {})
    \cup (IF animationFrameRef # 0 THEN {"cancelAnimationFrame"} ELSE {})
    \cup (IF sessionRef # 0 THEN {"session.close"} ELSE {})

\* The call of each guarded statement of stopSession, when its ref is set.
Call(ref, name) == IF ref # 0 THEN <<name>> ELSE <<>>

\* Faulty variant of IssuedOrder: the contexts are closed first.
ClosesFirst ==
    Call(inputContextRef, "input.close")
    \o Call(outputContextRef, "output.close")
    \o Call(streamRef, "track.stop")
    \o Call(processorRef, "processor.disconnect")
    \o Call(sourceRef, "source.disconnect")
    \o Call(analyserRef, "analyser.disconnect")
    \o Call(animationFrameRef, "cancelAnimationFrame")
    \o Call(sessionRef, "session.close")

\* Lines 186-211: the calls of one run of stopSession, in program order; the
\* callback of line 210 runs after the handler has returned.
IssuedOrder ==
    Call(streamRef, "track.stop")
    \o Call(processorRef, "processor.disconnect")
    \o Call(sourceRef, "source.disconnect")
    \o Call(analyserRef, "analyser.disconnect")
    \o Call(inputContextRef, "input.close")
    \o Call(outputContextRef, "output.close")
    \o Call(animationFrameRef, "cancelAnimationFrame")
    \o Call(sessionRef, "session.close")

\* Faulty variant of CursorAfterStop: stopSession rewinds an advanced cursor.
CursorRewound == IF nextStartTimeRef > 0 THEN 0 ELSE nextStartTimeRef

\* Lines 184-215: stopSession has no assignment to nextStartTimeRef.
CursorAfterStop == nextStartTimeRef

\* Lines 184-215, the body shared by the button and the unmount cleanup.
StopBody ==
    /\ tracks' = TracksStopped
    /\ nodes' = NodesDisconnected
    /\ inputCtx' = Closed(inputCtx, inputContextRef)
    /\ outputCtx' = Closed(outputCtx, outputContextRef)
    /\ loops' = Cancelled
    /\ closeRequested' = CloseRequested
    /\ connected' = FALSE
    /\ isTalking' = FALSE
    /\ life' = IF life = "never" THEN "never" ELSE "stopped"
    /\ last' = [op |-> "stopSession", s |-> sessionRef,
                again |-> last.op = "stopSession",
                idle |-> life # "active", issued |-> Issued,
                order |-> IssuedOrder,
                afterFrame |-> last.op = "onaudioprocess"]
    /\ nextStartTimeRef' = CursorAfterStop
    /\ UNCHANGED <<refs, animationFrameRef, currentTime, outputNode, phase,
                   playback>>
    /\ UNCHANGED others

\* Line 272: the button runs stopSession when it was rendered connected.
StopSession ==
    /\ mounted
    /\ rendered
    /\ StopBody
    /\ UNCHANGED <<mounted, rendered>>

\* Faulty variant of Unmount: the component unmounts and no cleanup runs.
UnmountOnly ==
    /\ mounted
    /\ mounted' = FALSE
    /\ rendered' = FALSE
    /\ last' = Op("unmount", 0)
    /\ UNCHANGED <<connected, isTalking, refs, nextStartTimeRef,
                   animationFrameRef, browser, currentTime, loops, phase,
                   closeRequested, playback, life>>
    /\ UNCHANGED others

\* Lines 217-221: the effect cleanup runs stopSession when the component
\* unmounts; the canvas goes with it.
Unmount ==
    /\ mounted
    /\ mounted' = FALSE
    /\ rendered' = FALSE
    /\ StopBody

\* -------------------------------------------------------------- onmessage
\* A message of the remote session: inline audio of some decoded duration,
\* the interrupted flag, both or neither.
Chunk(n, s, d, i) ==
    [seq |-> n, s |-> s, ctx |-> outputContextRef, dur |-> d, interrupted |-> i]

Interrupted == [kind |-> "interrupted", seq |-> 0, ctx |-> 0, now |-> 0,
                start |-> 0, dur |-> 0]

Scheduled(m, at) ==
    [kind |-> "chunk", seq |-> m.seq, ctx |-> m.ctx, now |-> currentTime[m.ctx],
     start |-> at, dur |-> m.dur]

\* The history keeps the last LogDepth playback events.
Logged(es) ==
    LET all == playLog \o es
    IN  IF Len(all) <= LogDepth THEN all
        ELSE SubSeq(all, Len(all) - LogDepth + 1, Len(all))

\* Faulty variant of ResetCursor: the interrupted branch leaves the cursor
\* alone.
KeepCursor(c) == c

\* Line 153: the cursor after an interrupted event, c being the cursor before.
ResetCursor(c) == 0

\* Lines 121-131 and 151-154: the handler up to its await, or to its end
\* when the message carries no audio.
OnMessage(s, audio, interrupted, d) ==
    /\ phase[s] = "open"
    /\ arrived < MaxMsgs
    /\ audio \/ interrupted
    /\ arrived' = arrived + 1
    /\ IF audio
       THEN /\ isTalking' = TRUE
            /\ decoding' = IF outputContextRef # 0
                           THEN decoding \cup {Chunk(arrived + 1, s, d, interrupted)}
                           ELSE decoding
            /\ UNCHANGED <<nextStartTimeRef, playLog>>
       ELSE /\ isTalking' = IF interrupted THEN FALSE ELSE isTalking
            /\ nextStartTimeRef' = IF interrupted
                                   THEN ResetCursor(nextStartTimeRef)
                                   ELSE nextStartTimeRef
            /\ playLog' = IF interrupted THEN Logged(<<Interrupted>>)
                          ELSE playLog
            /\ UNCHANGED decoding
    /\ last' = Op(IF ~audio /\ interrupted THEN "interrupted" ELSE "onmessage", s)
    /\ UNCHANGED <<mounted, connected, rendered, refs, animationFrameRef,
                   browser, currentTime, loops, phase, closeRequested,
                   sources, life>>
    /\ UNCHANGED others

\* decodeAudioData(audioBytes, ctx) of a waiting handler settles after an
\* arbitrary delay: any waiting handler may be the next to resume.
DecodeSettles(m) == m \in decoding

\* Faulty variant of StartTime: the chunk is started at the clock's time,
\* whatever the cursor.
StartTimeNow(m) == currentTime[m.ctx]

\* Faulty variant of StartTime: the chunk is started at the cursor, without
\* the clamp to now.
StartTimeCursor(m) == nextStartTimeRef

\* Line 134: the start time of a decoded chunk.
StartTime(m) == Max(nextStartTimeRef, currentTime[m.ctx])

\* Line 141: the cursor after the chunk was started at `at`.
Advance(at, m) == at + m.dur

\* Lines 132-154: decodeAudioData resolved for one waiting handler, in any
\* order of completion.  source.connect(outputNode) throws when the gain
\* node of this session belongs to another context than the one read at
\* line 129: line 134 has run by then, the rest of the handler has not.
DecodeDone(m) ==
    /\ DecodeSettles(m)
    /\ decoding' = decoding \ {m}
    /\ IF outputNode[m.s] # m.ctx
       THEN /\ nextStartTimeRef' = StartTime(m)
            /\ UNCHANGED <<sources, playLog, isTalking>>
       ELSE /\ sources' = sources \cup
                  {[ctx |-> m.ctx, start |-> StartTime(m),
                    end |-> Advance(StartTime(m), m)]}
            /\ IF m.interrupted
               THEN /\ isTalking' = FALSE
                    /\ nextStartTimeRef' = ResetCursor(Advance(StartTime(m), m))
                    /\ playLog' = Logged(<<Scheduled(m, StartTime(m)), Interrupted>>)
               ELSE /\ nextStartTimeRef' = Advance(StartTime(m), m)
                    /\ playLog' = Logged(<<Scheduled(m, StartTime(m))>>)
                    /\ UNCHANGED isTalking
    /\ last' = Op(IF outputNode[m.s] = m.ctx /\ m.interrupted
                   THEN "interrupted" ELSE "decoded", m.s)
    /\ UNCHANGED <<mounted, connected, rendered, refs, animationFrameRef,
                   browser, currentTime, loops, phase, closeRequested,
                   arrived, life>>
    /\ UNCHANGED others

\* Faulty variant of CursorAfterReject: the clamp of line 134 runs although
\* the decode rejected.
CursorClampedAfterReject(m) == StartTime(m)

\* Lines 131-141: the rejected await ends the handler before line 134, so
\* the cursor keeps its value.
CursorAfterReject(m) == nextStartTimeRef

\* decodeAudioData rejected: the handler ends at line 131.
DecodeFail(m) ==
    /\ DecodeSettles(m)
    /\ decoding' = decoding \ {m}
    /\ nextStartTimeRef' = CursorAfterReject(m)
    /\ last' = Op("decode failed", m.s)
    /\ UNCHANGED <<mounted, connected, isTalking, rendered, refs,
                   animationFrameRef, browser, currentTime,
                   loops, phase, closeRequested, sources, arrived,
                   playLog, life>>
    /\ UNCHANGED others

\* Lines 143-147: a started buffer has played to its end on a running context.
OnEnded(src) ==
    /\ src \in sources
    /\ outputCtx[src.ctx] = "running"
    /\ currentTime[src.ctx] >= src.end
    /\ sources' = sources \ {src}
    /\ isTalking' = IF currentTime[src.ctx] >= nextStartTimeRef - Tolerance
                    THEN FALSE ELSE isTalking
    /\ last' = Op("onended", 0)
    /\ UNCHANGED <<mounted, connected, rendered, refs, nextStartTimeRef,
                   animationFrameRef, browser, currentTime, loops, phase,
                   closeRequested, decoding, arrived, playLog, life>>
    /\ UNCHANGED others

\* The clocks of the running output contexts advance together.
Tick ==
    /\ \E c \in Starts : outputCtx[c] = "running"
    /\ \A c \in Starts : outputCtx[c] = "running" => currentTime[c] < MaxTime
    /\ currentTime' = [c \in Starts |->
                         IF outputCtx[c] = "running" THEN currentTime[c] + 1
                         ELSE currentTime[c]]
    /\ UNCHANGED <<mounted, connected, isTalking, rendered, refs,
                   nextStartTimeRef, animationFrameRef, browser, loops, phase,
                   closeRequested, playback, life, last>>
    /\ UNCHANGED others

\* ------------------------------------------------------------------ system
\* The session lifecycle, the capture path and the visualizer, for starts
\* that may overlap (the button starts a session whenever it was rendered
\* disconnected).
Next ==
    \/ Render
    \/ \E s \in Starts : StartSession(s)
    \/ \E s \in Starts : MicGranted(s)
    \/ \E s \in Starts : MicDenied(s)
    \/ \E s \in Starts : OnOpen(s)
    \/ \E s \in Starts : OnAudioProcess(s)
    \/ \E l \in Starts : RenderFrame(l)
    \/ \E s \in Starts : OnClose(s)
    \/ \E s \in Starts : OnError(s)
    \/ \E s \in Starts : ConnectRejected(s)
    \/ StopSession
    \/ Unmount

Spec == Init /\ [][Next]_vars

\* The playback path: the first session of a component instance from its
\* start to its end (remote close, error or the stop button), with the
\* messages it receives, their decodes, the buffers' onended events and the
\* output clock.
PlaybackNext ==
    \/ StartSession(1)
    \/ MicGranted(1)
    \/ MicDenied(1)
    \/ OnOpen(1)
    \/ OnAudioProcess(1)
    \/ OnClose(1)
    \/ OnError(1)
    \/ ConnectRejected(1)
    \/ Render
    \/ StopSession
    \/ \E audio \in BOOLEAN, i \in BOOLEAN, d \in Durations :
          OnMessage(1, audio, i, d)
    \/ \E m \in decoding : DecodeDone(m)
    \/ \E m \in decoding : DecodeFail(m)
    \/ \E src \in sources : OnEnded(src)
    \/ Tick

PlaybackSpec == Init /\ [][PlaybackNext]_vars

\* ------------------------------------------------------ VibrationAnalyzer
\* types.ts lines 9-14: two of the four severities.
Severities == {"Normal", "Alarm"}

Files == 1..MaxFiles

ImageTypes == {"waveform", "spectrum", "historical"}

\* Lines 163-181: the local state runAnalysis writes; the images change only
\* by a user action, which Touch records.
Snapshot == <<result, feedbackGiven, analyzing>>

\* History: the user acted while an analysis was pending; an analysis that
\* has ended is forgotten at the next user action.
Touch(a) ==
    IF a.state = "pending" THEN [a EXCEPT !.touched = TRUE] ELSE NoAnalysis

\* Lines 95-99: the body of the auto-switch effect for images w, s, h.
ViewAfterEffect(w, s, h) ==
    IF h # 0 /\ s # 0 THEN "compare"
    ELSE IF s # 0 THEN "spectrum"
    ELSE IF w # 0 THEN "waveform"
    ELSE activeView

\* Line 99: the effect runs after a commit that changed one of its
\* dependencies, before the next event is handled.
AutoSwitch(w, s, h) ==
    IF <<w, s, h>> # <<waveformImage, spectrumImage, historicalImage>>
    THEN ViewAfterEffect(w, s, h)
    ELSE activeView

SetImages(w, s, h) ==
    /\ waveformImage' = w
    /\ spectrumImage' = s
    /\ historicalImage' = h
    /\ activeView' = AutoSwitch(w, s, h)

\* Lines 101-116: reader.onload of a file picked, dropped or pasted while
\* the drop zone was empty; several reads may be under way for one zone.
FileLoaded(type, f) ==
    /\ SetImages(IF type = "waveform" THEN f ELSE waveformImage,
                 IF type = "spectrum" THEN f ELSE spectrumImage,
                 IF type = "historical" THEN f ELSE historicalImage)
    /\ analysis' = Touch(analysis)
    /\ last' = Op("file loaded", 0)
    /\ UNCHANGED <<result, feedbackGiven, analyzing,
                   feedbackStore, liveVars, chatVars>>

\* Lines 328-334: the remove button of a drop zone that shows an image.
RemoveImage(type) ==
    /\ \/ type = "waveform" /\ waveformImage # 0
       \/ type = "spectrum" /\ spectrumImage # 0
       \/ type = "historical" /\ historicalImage # 0
    /\ SetImages(IF type = "waveform" THEN 0 ELSE waveformImage,
                 IF type = "spectrum" THEN 0 ELSE spectrumImage,
                 IF type = "historical" THEN 0 ELSE historicalImage)
    /\ analysis' = Touch(analysis)
    /\ last' = Op("image removed", 0)
    /\ UNCHANGED <<result, feedbackGiven, analyzing,
                   feedbackStore, liveVars, chatVars>>

\* Lines 526-547: the tab buttons; Compare is disabled unless both the
\* historical and the spectrum image are set.
TabClick(view) ==
    /\ view = "compare" => historicalImage # 0 /\ spectrumImage # 0
    /\ activeView' = view
    /\ analysis' = Touch(analysis)
    /\ last' = Op("tab", 0)
    /\ UNCHANGED <<waveformImage, spectrumImage, historicalImage, result,
                   feedbackGiven, analyzing, feedbackStore,
                   liveVars, chatVars>>

\* Line 164: setFeedbackGiven(null) before the try block.
FeedbackAtStart == "null"

\* Lines 158-166: the button (disabled while analyzing) runs runAnalysis up
\* to its await; with neither waveform nor spectrum it alerts and returns.
RunAnalysis ==
    /\ ~analyzing
    /\ analysis.state # "pending"
    /\ IF waveformImage = 0 /\ spectrumImage = 0
       THEN /\ last' = Op("alert: upload an image", 0)
            /\ analysis' = Touch(analysis)
            /\ UNCHANGED <<analyzing, feedbackGiven>>
       ELSE /\ analyzing' = TRUE
            /\ feedbackGiven' = FeedbackAtStart
            /\ analysis' = [state |-> "pending", touched |-> FALSE,
                            before |-> Snapshot]
            /\ last' = Op("runAnalysis", 0)
    /\ UNCHANGED <<waveformImage, spectrumImage, historicalImage, activeView,
                   result, feedbackStore, liveVars, chatVars>>

\* Lines 176 and 180-182: analyzeVibrationData resolved.
AnalysisResolved(sev) ==
    /\ analysis.state = "pending"
    /\ result' = sev
    /\ analyzing' = FALSE
    /\ analysis' = [analysis EXCEPT !.state = "done"]
    /\ last' = Op("analysis done", 0)
    /\ UNCHANGED <<waveformImage, spectrumImage, historicalImage, activeView,
                   feedbackGiven, feedbackStore, liveVars,
                   chatVars>>

\* Lines 177-182: analyzeVibrationData rejected; alert("Analysis failed.").
AnalysisRejected ==
    /\ analysis.state = "pending"
    /\ analyzing' = FALSE
    /\ analysis' = [analysis EXCEPT !.state = "failed"]
    /\ last' = Op("analysis failed", 0)
    /\ UNCHANGED <<waveformImage, spectrumImage, historicalImage, activeView,
                   result, feedbackGiven, feedbackStore, liveVars,
                   chatVars>>

\* Line 218: getItem(key) || '[]', parsed; the stored text is modelled as the
\* sequence of the objects it denotes.
StoredHistory(item) == IF item.present THEN item.text ELSE <<>>

\* JSON.stringify of a history record: a property whose value is undefined
\* is left out, the other values read back as they were written.
Stringify(r) ==
    IF r.severity = "undefined"
    THEN [timestamp |-> r.timestamp, helpful |-> r.helpful]
    ELSE r

\* Lines 213-217: new Date().toISOString() of a later click is a later time.
HistoryItem(history, isHelpful) ==
    [timestamp |-> Len(history) + 1,
     severity |-> IF result = "null" THEN "undefined" ELSE result,
     helpful |-> isHelpful]

\* Faulty variant of Pushed: the new record replaces the stored list.
Overwritten(history, r) == <<Stringify(r)>>

\* Lines 219-220: existingHistory.push(historyItem), then stringified.
Pushed(history, r) == Append(history, Stringify(r))

\* Lines 211-221: a feedback button, rendered with a result and disabled
\* once feedback was given.
HandleFeedback(isHelpful) ==
    /\ result # "null"
    /\ feedbackGiven = "null"
    /\ Len(StoredHistory(feedbackStore)) < MaxFeedback
    /\ feedbackGiven' = IF isHelpful THEN "up" ELSE "down"
    /\ feedbackStore' =
          [present |-> TRUE,
           text |-> Pushed(StoredHistory(feedbackStore),
                           HistoryItem(StoredHistory(feedbackStore), isHelpful))]
    /\ analysis' = Touch(analysis)
    /\ last' = Op("handleFeedback", 0)
    /\ UNCHANGED <<waveformImage, spectrumImage, historicalImage, activeView,
                   result, analyzing, liveVars, chatVars>>

\* The feedback log an earlier visit may have left in local storage.
EarlierStores ==
    {NoItem,
     [present |-> TRUE,
      text |-> <<[timestamp |-> 0, severity |-> "Alarm", helpful |-> FALSE]>>]}

AnalyzerNext ==
    \/ \E type \in ImageTypes, f \in Files : FileLoaded(type, f)
    \/ \E type \in ImageTypes : RemoveImage(type)
    \/ \E view \in {"waveform", "spectrum", "compare"} : TabClick(view)
    \/ RunAnalysis
    \/ \E sev \in Severities : AnalysisResolved(sev)
    \/ AnalysisRejected
    \/ \E isHelpful \in BOOLEAN : HandleFeedback(isHelpful)

\* The component is mounted on a browser whose local storage holds what
\* earlier visits left.
StoredInit ==
    /\ LiveInit
    /\ AnalyzerInit
    /\ feedbackStore \in EarlierStores
    /\ ChatInit

AnalyzerSpec == StoredInit /\ [][AnalyzerNext]_vars

\* -------------------------------------------------------------- App chat
\* App.tsx lines 283-290: the user types into the chat input, which is
\* never disabled.
TypeText ==
    /\ ~chatInput
    /\ chatInput' = TRUE
    /\ last' = Op("type", 0)
    /\ UNCHANGED <<isTyping, chatMessages, requests, liveVars, analyzerVars>>

\* The number of user messages sent so far.
Sent == Cardinality({i \in 1..Len(chatMessages) : chatMessages[i].role = "user"})

\* App.tsx lines 41-50: handleChatSend up to its await; it returns at once
\* when the input is blank.
HandleChatSend(by) ==
    /\ chatInput
    /\ Sent < MaxChat
    /\ chatMessages' = Append(chatMessages, [role |-> "user", id |-> Sent + 1])
    /\ chatInput' = FALSE
    /\ isTyping' = TRUE
    /\ requests' = requests \cup {Sent + 1}
    /\ last' = Op(by, Sent + 1)
    /\ UNCHANGED <<liveVars, analyzerVars>>

\* App.tsx lines 291-293: the send button is disabled while isTyping.
ClickSend == ~isTyping /\ HandleChatSend("send button")

\* App.tsx line 287: the Enter key calls handleChatSend whatever isTyping.
PressEnter == HandleChatSend("enter key")

\* App.tsx lines 50-52 and 56-58: sendMessage resolved.
SendResolved(n) ==
    /\ n \in requests
    /\ requests' = requests \ {n}
    /\ chatMessages' = Append(chatMessages, [role |-> "model", id |-> n])
    /\ isTyping' = FALSE
    /\ last' = Op("reply", n)
    /\ UNCHANGED <<chatInput, liveVars, analyzerVars>>

\* App.tsx lines 53-58: sendMessage rejected; the error is only logged.
SendRejected(n) ==
    /\ n \in requests
    /\ requests' = requests \ {n}
    /\ isTyping' = FALSE
    /\ last' = Op("send failed", n)
    /\ UNCHANGED <<chatInput, chatMessages, liveVars, analyzerVars>>

ChatNext ==
    \/ TypeText
    \/ ClickSend
    \/ PressEnter
    \/ \E n \in requests : SendResolved(n)
    \/ \E n \in requests : SendRejected(n)

ChatSpec == Init /\ [][ChatNext]_vars

\* -------------------------------------------------- sessions in sequence
\* Line 272: the button starts a session when no session is under way, the
\* earlier one, if any, having been stopped by the button.
StartAfterStop(s) == life # "active" /\ StartSession(s)

\* Lines 121-131: an audio chunk arrives on a session whose close was not
\* requested.
AudioArrives(s, d) == ~closeRequested[s] /\ OnMessage(s, TRUE, FALSE, d)

\* Line 272: the user stops the session while no chunk awaits its decode.
StopWhenQuiet == decoding = {} /\ StopSession

\* One session after the other on the same component instance, each with
\* audio chunks and no interrupted event.
RestartNext ==
    \/ \E s \in Starts : StartAfterStop(s)
    \/ \E s \in Starts : MicGranted(s)
    \/ \E s \in Starts : OnOpen(s)
    \/ Render
    \/ StopWhenQuiet
    \/ \E s \in Starts, d \in Durations : AudioArrives(s, d)
    \/ \E m \in decoding : DecodeDone(m)
    \/ \E src \in sources : OnEnded(src)
    \/ Tick

RestartSpec == Init /\ [][RestartNext]_vars

\* ------------------------------------------------------------- properties
IsChunk(e) == e.kind = "chunk"

Pairs == 1..(Len(playLog) - 1)

\* C1: chunks scheduled one after the other with no interrupted event
\* between them never overlap: the start times passed to source.start do not
\* decrease, and each is at or after the previous chunk's start time plus
\* its duration, whatever the decode delays.
C1_NoOverlap ==
    \A i \in Pairs :
        IsChunk(playLog[i]) /\ IsChunk(playLog[i + 1]) =>
            /\ playLog[i + 1].start >= playLog[i].start
            /\ playLog[i + 1].start >= playLog[i].start + playLog[i].dur

\* C1 witness: a second chunk was decoded later than the first and placed
\* exactly at the first one's end.
C1_Witness ==
    \E i \in Pairs :
        /\ IsChunk(playLog[i]) /\ IsChunk(playLog[i + 1])
        /\ playLog[i + 1].now > playLog[i].now
        /\ playLog[i + 1].start = playLog[i].start + playLog[i].dur

\* C2: a chunk is started at max(cursor, now) and the cursor then is that
\* start time plus the chunk's duration; chunks of 0.5 s and 0.3 s decoded at
\* the same clock time T, the first started at T, are started at T and
\* T + 0.5 and leave the cursor at T + 0.8.
C2_ScheduleRule ==
    /\ Len(playLog) = 1 /\ IsChunk(playLog[1]) =>
          playLog[1].start = playLog[1].now
    /\ \A i \in Pairs :
          IsChunk(playLog[i]) /\ IsChunk(playLog[i + 1]) =>
             playLog[i + 1].start =
                Max(playLog[i].start + playLog[i].dur, playLog[i + 1].now)
    /\ playLog # <<>> /\ IsChunk(playLog[Len(playLog)]) =>
          nextStartTimeRef =
             playLog[Len(playLog)].start + playLog[Len(playLog)].dur
    /\ \A i \in Pairs :
          /\ IsChunk(playLog[i]) /\ IsChunk(playLog[i + 1])
          /\ playLog[i].dur = 5 /\ playLog[i + 1].dur = 3
          /\ playLog[i].start = playLog[i].now
          /\ playLog[i + 1].now = playLog[i].now
          => /\ playLog[i + 1].start = playLog[i].now + 5
             /\ i + 1 = Len(playLog) => nextStartTimeRef = playLog[i].now + 8

\* C2 witness: the scenario at a clock time T > 0.
C2_Witness ==
    /\ Len(playLog) = 2
    /\ IsChunk(playLog[1]) /\ IsChunk(playLog[2])
    /\ playLog[1].dur = 5 /\ playLog[2].dur = 3
    /\ playLog[1].now > 0
    /\ playLog[1].start = playLog[1].now
    /\ playLog[2].now = playLog[1].now
    /\ playLog[2].start = playLog[1].now + 5
    /\ nextStartTimeRef = playLog[1].now + 8

C4_FifoOrder ==
    \A i \in 1..Len(playLog) : \A j \in 1..Len(playLog) :
        i < j /\ IsChunk(playLog[i]) /\ IsChunk(playLog[j]) =>
            playLog[i].seq < playLog[j].seq

Opened(s) == phase[s] \in {"open", "closed"}

\* Everything the teardown of session s covers has been released.
TornDown(s) ==
    /\ tracks[s] # "live"
    /\ ~nodes[s].processor /\ ~nodes[s].source /\ ~nodes[s].analyser
    /\ inputCtx[s] = "closed" /\ outputCtx[s] = "closed"
    /\ loops[s] # "pending"
    /\ closeRequested[s]

\* C5: from the Open state, a user stop, a remote onclose and a remote
\* onerror leave the same torn-down state: tracks stopped, processor, source
\* and analyser disconnected, both contexts closed, no pending animation
\* frame, close of the session requested.
C5_SameTeardown ==
    /\ last.op \in {"onclose", "onerror"} /\ phase[last.s] = "closed" =>
          TornDown(last.s)
    /\ last.op = "stopSession" /\ last.s # 0 /\ phase[last.s] = "open" =>
          TornDown(last.s)

\* C6: right after stopSession, whatever came before, no audio graph node
\* the component created is connected and no audio context it created is
\* still running.
C6_TeardownComplete ==
    last.op = "stopSession" =>
        \A s \in Starts :
            /\ ~nodes[s].processor /\ ~nodes[s].source /\ ~nodes[s].analyser
            /\ inputCtx[s] # "running" /\ outputCtx[s] # "running"

\* What a user can observe of the component.
Observable ==
    <<connected, isTalking, {s \in Starts : tracks[s] = "live"},
      {l \in Starts : loops[l] = "pending"}>>

\* The state a stop leaves: Idle, the tracks of the stream it holds ended,
\* the animation frame it holds not pending.
IdleAfterStop ==
    /\ ~connected /\ ~isTalking
    /\ streamRef # 0 => tracks[streamRef] = "ended"
    /\ animationFrameRef # 0 => loops[animationFrameRef] # "pending"

C8_IdleStopIsNoOp ==
    last.op = "stopSession" /\ last.idle => last.issued = {}

\* C9: the capture graph (source, analyser, processor) exists only for
\* sessions whose onopen has fired, it is wired by that onopen, and no frame
\* reaches sendRealtimeInput of a session before its onopen.
C9_CaptureAfterOpen ==
    /\ \A s \in Starts : nodes[s] # NoNodes => Opened(s)
    /\ \A r \in {processorRef, sourceRef, analyserRef} : r # 0 => Opened(r)
    /\ last.op = "onaudioprocess" => Opened(last.s)
    /\ last.op \in {"startSession", "micGranted"} => nodes[last.s] = NoNodes
    /\ last.op = "onopen" /\ inputCtx[inputContextRef] = "running" =>
          nodes[last.s] = Wired

\* C9 witness: a captured frame was sent on an open session.
C9_Witness ==
    /\ last.op = "onaudioprocess"
    /\ phase[last.s] = "open"
    /\ nodes[last.s] = Wired

\* C10: at most one remote session is connecting or open at a time.
C10_OneSession ==
    Cardinality({s \in Starts : phase[s] \in {"connecting", "open"}}) <= 1

\* C11: the connected indication of the mounted component turns true only
\* by the onopen of a session that was connecting, and not after a stop has
\* returned the component to Idle unless a new start followed the stop.
C11_Lifecycle ==
    [][mounted /\ ~connected /\ connected' =>
          /\ last'.op = "onopen"
          /\ phase[last'.s] = "connecting"
          /\ life = "active"]_vars

\* C12: a start whose getUserMedia was rejected ends in the catch block: no
\* stream, no gain node, no client.connect (so no remote session, no capture
\* graph, no visualizer loop) and nothing to close; connected is true only
\* while some session is open, which this start never is.
C12_MicDenied ==
    /\ \A s \in Starts :
          phase[s] = "denied" =>
             /\ sessionRef # s /\ streamRef # s
             /\ tracks[s] = "none" /\ outputNode[s] = 0
             /\ nodes[s] = NoNodes /\ loops[s] = "none"
             /\ ~closeRequested[s]
    /\ last.op = "micDenied" => phase[last.s] = "denied"
    /\ connected => \E t \in Starts : phase[t] = "open"

\* C12 witness: the only start so far was denied the microphone and the
\* component shows Idle.
C12_Witness ==
    /\ last.op = "micDenied" /\ last.s = 1
    /\ phase[1] = "denied"
    /\ \A t \in Starts \ {1} : phase[t] = "none"
    /\ ~connected /\ sessionRef = 0

\* What one run of stopSession leaves, on the resources the refs hold.
StopSequenceRan ==
    /\ ~connected /\ ~isTalking
    /\ streamRef # 0 => tracks[streamRef] = "ended"
    /\ processorRef # 0 => ~nodes[processorRef].processor
    /\ sourceRef # 0 => ~nodes[sourceRef].source
    /\ analyserRef # 0 => ~nodes[analyserRef].analyser
    /\ inputContextRef # 0 => inputCtx[inputContextRef] = "closed"
    /\ outputContextRef # 0 => outputCtx[outputContextRef] = "closed"
    /\ animationFrameRef # 0 => loops[animationFrameRef] # "pending"
    /\ sessionRef # 0 => closeRequested[sessionRef]
    /\ last.issued = Issued

\* C13: an unmounted component has run stopSession, and the run of the
\* unmount cleanup leaves what the run of the stop button leaves: the stop
\* sequence applied to the resources the refs hold at that time.
C13_UnmountStops ==
    /\ ~mounted => life # "active"
    /\ ~mounted /\ last.op = "stopSession" => StopSequenceRan
    /\ mounted /\ last.op = "stopSession" => StopSequenceRan

\* C13 witness: the component was unmounted while its session was open and
\* the cleanup disconnected the capture graph and closed the contexts.
C13_Witness ==
    /\ ~mounted /\ last.op = "stopSession"
    /\ last.s # 0 /\ phase[last.s] = "open"
    /\ {"track.stop", "disconnect", "context.close", "session.close"}
          \subseteq last.issued
    /\ inputCtx[inputContextRef] = "closed"

\* C14: a rejected decode leaves the cursor, the started buffers, the
\* schedule history and the session as they were, and the chunk decoded
\* next is started at max(cursor, now) and moves the cursor to its end.
C14_DecodeErrorNotFatal ==
    [][/\ last'.op = "decode failed" =>
             /\ nextStartTimeRef' = nextStartTimeRef
             /\ sources' = sources
             /\ playLog' = playLog
             /\ phase' = phase
             /\ connected' = connected
       /\ last.op = "decode failed" /\ last'.op = "decoded" =>
             /\ playLog'[Len(playLog')].start =
                   Max(nextStartTimeRef, playLog'[Len(playLog')].now)
             /\ nextStartTimeRef' =
                   playLog'[Len(playLog')].start + playLog'[Len(playLog')].dur]_vars

\* C14 witness: a decode was rejected on an open session at a clock time
\* past the cursor, while another chunk waits for its decode.
C14_Witness ==
    /\ last.op = "decode failed"
    /\ phase[last.s] = "open"
    /\ currentTime[1] > nextStartTimeRef
    /\ decoding # {}

\* C15: when every message so far carried audio and no interrupted event,
\* no decode failed and no stop ran, the speaking flag is true as long as
\* the chunk scheduled last has not played to its end.
C15_SpeakingSpan ==
    /\ mounted /\ life = "active"
    /\ playLog # <<>>
    /\ \A i \in 1..Len(playLog) : IsChunk(playLog[i])
    /\ Len(playLog) + Cardinality(decoding) = arrived
    /\ currentTime[1] < playLog[Len(playLog)].start + playLog[Len(playLog)].dur
    => isTalking

\* C16: whenever the speaking flag of the mounted component is true,
\* something is pending that will clear it when no further chunk arrives: a
\* decode in flight or a started buffer whose onended has not run, on a
\* running output context.
C16_FlagClears ==
    mounted /\ isTalking =>
        \/ \E m \in decoding : outputCtx[m.ctx] = "running"
        \/ \E src \in sources : outputCtx[src.ctx] = "running"

\* C17: a captured frame is passed to sendRealtimeInput only while the
\* remote session it goes to is open.
C17_NoFrameAfterClose ==
    last.op = "onaudioprocess" => phase[last.s] = "open"

\* Start s is the only start of the component so far.
Lone(s) == \A t \in Starts \ {s} : phase[t] = "none"

\* C18: for a single session, every frame is sent while the processor is
\* still connected and before stopSession has asked the session to close;
\* once stopSession has run, no frame is left to deliver.
C18_SendsBeforeTeardown ==
    /\ last.op = "onaudioprocess" /\ Lone(last.s) =>
          /\ nodes[last.s].processor
          /\ ~closeRequested[last.s]
    /\ \A s \in Starts : Lone(s) /\ closeRequested[s] => ~Delivers(s)

\* C18 witness: the stop button ran right after a captured frame was sent
\* on the only session, open at the time.
C18_Witness ==
    /\ last.op = "stopSession" /\ last.afterFrame
    /\ mounted
    /\ last.s # 0 /\ Lone(last.s) /\ phase[last.s] = "open"
    /\ "disconnect" \in last.issued /\ "session.close" \in last.issued

\* C19: after the stop button has run (and no new start), no visualizer
\* frame is pending and no callback is left that holds a closed context:
\* no onmessage handler awaiting its decode, no onopen still to come.
C19_NoDanglingCallbacks ==
    mounted /\ life = "stopped" =>
        /\ \A l \in Starts : loops[l] # "pending"
        /\ \A m \in decoding : outputCtx[m.ctx] # "closed"
        /\ \A s \in Starts :
              phase[s] = "connecting" => inputCtx[inputContextRef] # "closed"

\* C20: a session that failed while connecting (onerror before onopen, or
\* the promise of client.connect rejected) is torn down: its tracks are not
\* live, both its contexts are closed.
C20_HandshakeFailureTeardown ==
    \A s \in Starts :
        phase[s] = "failed" =>
            /\ tracks[s] # "live"
            /\ inputCtx[s] = "closed"
            /\ outputCtx[s] = "closed"

\* C21: when analyzeVibrationData fails, once runAnalysis has finished the
\* local state it writes (result, feedbackGiven, analyzing) equals its value
\* before runAnalysis was invoked, the user having done nothing meanwhile.
C21_FailureLeavesState ==
    last.op = "analysis failed" /\ ~analysis.touched
        => Snapshot = analysis.before

\* C22: every handleFeedback call leaves the stored records unchanged and in
\* order and appends exactly one record {timestamp, severity, helpful} at the
\* end; no other step writes the log.
C22_AppendOnly ==
    [][LET old == StoredHistory(feedbackStore)
           new == StoredHistory(feedbackStore')
       IN IF last'.op = "handleFeedback"
          THEN /\ feedbackStore'.present
               /\ Len(new) = Len(old) + 1
               /\ SubSeq(new, 1, Len(old)) = old
               /\ DOMAIN new[Len(new)] = {"timestamp", "severity", "helpful"}
               /\ new[Len(new)].severity = result
               /\ new[Len(new)].helpful = (feedbackGiven' = "up")
          ELSE feedbackStore' = feedbackStore]_vars

\* A feedback was appended to a log that an earlier visit had left.
C22_Witness ==
    /\ last.op = "handleFeedback"
    /\ Len(StoredHistory(feedbackStore)) >= 2
    /\ StoredHistory(feedbackStore)[1].timestamp = 0

\* C30: whenever activeView is 'compare' after the auto-switch effect has
\* run, both historicalImage and spectrumImage are set.
C30_CompareHasBoth ==
    activeView = "compare" => historicalImage # 0 /\ spectrumImage # 0

\* C23: the schedule cursor changes only in a step of the playback path, an
\* onmessage handler scheduling a chunk or handling interrupted; startSession,
\* stopSession, onopen, onclose, onerror and the capture callback leave it.
C23_CursorOwner ==
    [][nextStartTimeRef' # nextStartTimeRef
         => last'.op \in {"decoded", "interrupted"}]_vars

\* stopSession ran after the playback path had advanced the cursor.
C23_Witness ==
    /\ last.op = "stopSession"
    /\ nextStartTimeRef > 0
    /\ \E i \in DOMAIN playLog : IsChunk(playLog[i])

Disconnects ==
    {"processor.disconnect", "source.disconnect", "analyser.disconnect"}

Closes == {"input.close", "output.close"}

\* C24: in stopSession every node disconnect is issued before either context
\* is closed, and the close of the remote session after both context closes.
C24_StopOrder ==
    last.op = "stopSession" =>
        \A i, j \in DOMAIN last.order :
            /\ last.order[i] \in Disconnects /\ last.order[j] \in Closes
                   => i < j
            /\ last.order[i] \in Closes /\ last.order[j] = "session.close"
                   => i < j

\* A stop of an open session: three disconnects, two closes, a session close.
C24_Witness ==
    /\ last.op = "stopSession"
    /\ Disconnects \cup Closes \cup {"session.close"}
           \subseteq {last.order[i] : i \in DOMAIN last.order}

\* C29: at most one chat request is in flight at a time.
C29_OneRequest == Cardinality(requests) <= 1

\* C26: a chunk scheduled after an interrupted event does not overlap in time
\* with a buffer scheduled before that event (the chunk being the latest
\* message to arrive, so that every other buffer is of an earlier message).
C26_NoOverlapAfterInterrupt ==
    /\ last.op = "decoded"
    /\ decoding = {}
    /\ Len(playLog) >= 2
    /\ playLog[Len(playLog)].seq = arrived
    /\ ~IsChunk(playLog[Len(playLog) - 1])
    /\ IsChunk(playLog[Len(playLog)])
    => LET new == playLog[Len(playLog)]
       IN \A src \in sources :
              \/ src.ctx # new.ctx
              \/ <<src.start, src.end>> = <<new.start, new.start + new.dur>>
              \/ src.end <= new.start
              \/ new.start + new.dur <= src.start

\* C27: while the only session of the component is open and the connected
\* state has been rendered (the canvas is mounted), an animation frame of
\* its visualization loop is pending.
C27_LoopRuns ==
    \A s \in Starts :
        /\ Lone(s) /\ phase[s] = "open" /\ life = "active"
        /\ mounted /\ connected /\ rendered
        /\ nodes[s] = Wired
        => loops[s] = "pending"

\* C28: when startSession has ended in its catch block, no audio context the
\* attempt created is left open and no microphone track is left live.
C28_FailedStartReleases ==
    last.op = "micDenied" /\ Lone(last.s) /\ phase[last.s] = "denied" =>
        /\ inputCtx[last.s] # "running"
        /\ outputCtx[last.s] # "running"
        /\ tracks[last.s] # "live"

\* C25: the first audio chunk of a session started after an earlier session
\* was stopped is scheduled at the current time of the new output clock.
C25_FreshCursor ==
    \A i \in Pairs :
        /\ IsChunk(playLog[i]) /\ IsChunk(playLog[i + 1])
        /\ playLog[i].ctx < playLog[i + 1].ctx
        => playLog[i + 1].start = playLog[i + 1].now

====
